---- MODULE Spec2Model ----
(***************************************************************************)
(* Model of the Cividis theme engine (src/cividis-theme.js, class          *)
(* CividisTheme).  The class calls this.log and this.handleError, which    *)
(* the repository defines for the same class in src/unnamed/part_005;      *)
(* they are modelled from there.                                           *)
(*                                                                         *)
(* Strings whose characters matter (colour values) are sequences of        *)
(* one-character strings; all other strings are TLA+ strings.              *)
(***************************************************************************)
EXTENDS Integers, Sequences, FiniteSets, TLC

Null == "null"

(***************************************************************************)
(* Bounds of the model.                                                    *)
(***************************************************************************)
MaxRetryAttempts == 3   \* largest retryAttempts a page configures
MaxRefresh == 1         \* refreshTheme() calls the host page makes
MaxCreate == 2          \* createCTAButton() calls the host page makes
MaxDestroy == 1         \* destroy() calls the host page makes
MaxDetected == 8        \* longest list of detected colours handed to the mapper
MaxClicks == 2          \* clicks on the CTA button
MaxToggles == 2         \* POST /theme/toggle requests served per client key
MaxApply == 2           \* applyTheme() calls the host page makes in a row
MaxStyle == 2           \* applyStylingRules() calls made in a row
MaxElements == 3        \* elements of a page handed to the colour sampler

(***************************************************************************)
(* Program constants.                                                      *)
(***************************************************************************)
DefaultRetryAttempts == 3
DefaultRetryDelay == 1000
ForceCreateDelay == 1000
EmergencyCreateDelay == 2000

(***************************************************************************)
(* Colour strings.                                                         *)
(***************************************************************************)
HexDigits ==
    {"0","1","2","3","4","5","6","7","8","9",
     "a","b","c","d","e","f","A","B","C","D","E","F"}

Whitespace == {" ", "\t", "\n"}

RECURSIVE trimLeft(_)
trimLeft(s) ==
    IF s # <<>> /\ Head(s) \in Whitespace THEN trimLeft(Tail(s)) ELSE s

RECURSIVE trimRight(_)
trimRight(s) ==
    IF s # <<>> /\ s[Len(s)] \in Whitespace
    THEN trimRight(SubSeq(s, 1, Len(s) - 1))
    ELSE s

\* String.prototype.trim
trim(s) == trimRight(trimLeft(s))

\* /^[0-9A-Fa-f]{6}([0-9A-Fa-f]{2})?$/.test(color)
isBareHex(s) ==
    /\ Len(s) \in {6, 8}
    /\ \A i \in 1..Len(s) : s[i] \in HexDigits

\* A normalizeColor that leaves the surrounding whitespace in place.
normalizeColorNoTrim(color) ==
    IF isBareHex(color) THEN <<"#">> \o color ELSE color

\* normalizeColor(color), for string inputs
normalizeColor(color) ==
    LET t == trim(color)
    IN  IF isBareHex(t) THEN <<"#">> \o t ELSE t

(***************************************************************************)
(* CSS variables on the root element.  A property that is not set reads    *)
(* back as the empty string, and setProperty(name, "") removes it.         *)
(***************************************************************************)
ColorKeys ==
    <<"primary", "secondary", "accent", "success", "warning", "info",
      "background", "text", "border">>

NeutralVars ==
    {"--theme-background", "--theme-surface", "--theme-text",
     "--theme-text-muted", "--theme-border"}

cssVar(key) == "--theme-" \o key

VarNames == {cssVar(ColorKeys[i]) : i \in 1..Len(ColorKeys)} \cup NeutralVars

Unset == <<>>

EmptyRoot == [v \in VarNames |-> Unset]

\* A write of the set that clears every property the set does not name.
setPropertiesClearing(root, cssVariables) ==
    [v \in VarNames |->
        IF v \in DOMAIN cssVariables THEN cssVariables[v] ELSE Unset]

\* root.style.setProperty(variable, value) for every entry of cssVariables
setProperties(root, cssVariables) ==
    [v \in VarNames |->
        IF v \in DOMAIN cssVariables THEN cssVariables[v] ELSE root[v]]

\* transformToCSSVariables(colors): colors maps some of the API keys to
\* colour strings; a key with a falsy (empty) value is skipped.
transformToCSSVariables(colors) ==
    LET present == {i \in 1..Len(ColorKeys) :
                      /\ ColorKeys[i] \in DOMAIN colors
                      /\ colors[ColorKeys[i]] # <<>>}
    IN  [v \in {cssVar(ColorKeys[i]) : i \in present} |->
            normalizeColor(colors[CHOOSE k \in DOMAIN colors : cssVar(k) = v])]

(***************************************************************************)
(* Colour values used by the engine and by the sample inputs.              *)
(***************************************************************************)
C00204c == <<"#","0","0","2","0","4","c">>
C7f7c75 == <<"#","7","f","7","c","7","5">>
Cbbaf71 == <<"#","b","b","a","f","7","1">>
C0a376d == <<"#","0","a","3","7","6","d">>
Cffe945 == <<"#","f","f","e","9","4","5">>
C37476b == <<"#","3","7","4","7","6","b">>
Cffffff == <<"#","f","f","f","f","f","f">>
Cf8f9fa == <<"#","f","8","f","9","f","a">>
C1b1b1b == <<"#","1","b","1","b","1","b">>
C353a45 == <<"#","3","5","3","a","4","5">>
Ce0e0e0 == <<"#","e","0","e","0","e","0">>
Cff0000 == <<"#","f","f","0","0","0","0">>
C0000ff == <<"#","0","0","0","0","f","f">>
C008000 == <<"#","0","0","8","0","0","0">>

(***************************************************************************)
(* Palette Mapper.                                                         *)
(***************************************************************************)
\* The palette with the colours of primary and secondary exchanged.
cividisColorsSwapped ==
    << [key |-> "primary",   color |-> C7f7c75],
       [key |-> "secondary", color |-> C00204c],
       [key |-> "accent",    color |-> Cbbaf71],
       [key |-> "success",   color |-> C0a376d],
       [key |-> "warning",   color |-> Cffe945],
       [key |-> "info",      color |-> C37476b] >>

cividisColors ==
    << [key |-> "primary",   color |-> C00204c],
       [key |-> "secondary", color |-> C7f7c75],
       [key |-> "accent",    color |-> Cbbaf71],
       [key |-> "success",   color |-> C0a376d],
       [key |-> "warning",   color |-> Cffe945],
       [key |-> "info",      color |-> C37476b] >>

\* Overflow targets in another order.
extraTargetsReordered == <<"accent", "info", "secondary">>

extraTargets == <<"info", "accent", "secondary">>

cividisColorOf(key) ==
    (CHOOSE i \in 1..Len(cividisColors) : cividisColors[i].key = key)

neutralMapping ==
    [v \in NeutralVars |->
        CASE v = "--theme-background" -> Cffffff
          [] v = "--theme-surface"    -> Cf8f9fa
          [] v = "--theme-text"       -> C1b1b1b
          [] v = "--theme-text-muted" -> C353a45
          [] v = "--theme-border"     -> Ce0e0e0]

Min(a, b) == IF a < b THEN a ELSE b

\* createIntelligentMapping(detectedColors)
createIntelligentMapping(detectedColors) ==
    LET n == Len(detectedColors)
        ranked == {cssVar(cividisColors[i].key) : i \in 1..Min(n, 6)}
        \* extra colour with 0-based index j goes to extraTargets[j % 3]
        extra == {cssVar(extraTargets[(j % Len(extraTargets)) + 1]) :
                    j \in 0..(n - 7)}
        slots == ranked \cup extra
    IN  [v \in slots \cup NeutralVars |->
            IF v \in NeutralVars
            THEN neutralMapping[v]
            ELSE cividisColors[cividisColorOf(
                    CHOOSE k \in {cividisColors[i].key :
                                    i \in 1..Len(cividisColors)} :
                        cssVar(k) = v)].color]

\* The assignments createIntelligentMapping makes to mapping, in order:
\* the loop over the first six detected colours, then extraColors.forEach.
mappingWrites(detectedColors) ==
    LET n == Len(detectedColors)
        ranked == [i \in 1..Min(n, 6) |->
                     [rank |-> i, color |-> detectedColors[i],
                      slot |-> cividisColors[i].key,
                      value |-> cividisColors[i].color]]
        extraColors == SubSeq(detectedColors, 7, n)
        extra == [j \in 1..Len(extraColors) |->
                    LET targetKey ==
                          extraTargets[((j - 1) % Len(extraTargets)) + 1]
                    IN  [rank |-> j + 6, color |-> extraColors[j],
                         slot |-> targetKey,
                         value |-> cividisColors[cividisColorOf(targetKey)].color]]
    IN  ranked \o extra

(***************************************************************************)
(* DOM Color Sampler.  An element's computed style is given by the hex     *)
(* colours normalizeColorForDetection yields for its background, text and  *)
(* border colour (<<>> when it yields null or the colour is skipped).      *)
(***************************************************************************)
neutrals ==
    { Cffffff, <<"#","0","0","0","0","0","0">>, Cf8f9fa,
      <<"#","e","9","e","c","e","f">>, <<"#","d","e","e","2","e","6">>,
      <<"#","c","e","d","4","d","a">>, <<"#","a","d","b","5","b","d">>,
      <<"#","6","c","7","5","7","d">>, <<"#","4","9","5","0","5","7">>,
      <<"#","3","4","3","a","4","0">>, <<"#","2","1","2","5","2","9">>,
      <<"#","f","e","f","e","f","e">>, <<"#","f","d","f","d","f","d">>,
      <<"#","f","c","f","c","f","c">>, <<"#","f","b","f","b","f","b">>,
      <<"#","0","1","0","1","0","1">>, <<"#","0","2","0","2","0","2">>,
      <<"#","0","3","0","3","0","3">>, <<"#","0","4","0","4","0","4">> }

\* isNeutralColor(color), for lower-case hex input
isNeutralColor(color) == color \in neutrals

\* The colours one element contributes, in the order the scan reads them.
observed(el) ==
    LET keep(c) == IF c # <<>> /\ ~isNeutralColor(c) THEN <<c>> ELSE <<>>
    IN  keep(el.bg) \o keep(el.color)
          \o (IF el.border # el.color THEN keep(el.border) ELSE <<>>)

RECURSIVE observations(_)
observations(elements) ==
    IF elements = <<>> THEN <<>>
    ELSE observed(Head(elements)) \o observations(Tail(elements))

\* Distinct colours in order of first discovery (Map insertion order).
RECURSIVE discoveryOrder(_, _)
discoveryOrder(obs, seen) ==
    IF obs = <<>> THEN seen
    ELSE IF \E i \in 1..Len(seen) : seen[i] = Head(obs)
         THEN discoveryOrder(Tail(obs), seen)
         ELSE discoveryOrder(Tail(obs), Append(seen, Head(obs)))

countOf(obs, c) == Cardinality({i \in 1..Len(obs) : obs[i] = c})

\* Insert entry e into a list sorted by descending count, after every entry
\* whose count is not smaller (Array.prototype.sort is stable).
RECURSIVE insertSorted(_, _)
insertSorted(sorted, e) ==
    IF sorted = <<>> THEN <<e>>
    ELSE IF Head(sorted).count >= e.count
         THEN <<Head(sorted)>> \o insertSorted(Tail(sorted), e)
         ELSE <<e>> \o sorted

RECURSIVE sortByCount(_)
sortByCount(entries) ==
    IF entries = <<>> THEN <<>>
    ELSE insertSorted(sortByCount(SubSeq(entries, 1, Len(entries) - 1)),
                      entries[Len(entries)])

MaxSample == 1000

\* A ranking that keeps the colours counted once as well.
sortedColorsKeepSingles(allElements) ==
    LET elements == SubSeq(allElements, 1, Min(MaxSample, Len(allElements)))
        obs == observations(elements)
        order == discoveryOrder(obs, <<>>)
        entries == [i \in 1..Len(order) |->
                      [color |-> order[i], count |-> countOf(obs, order[i])]]
    IN  sortByCount(entries)

\* sortedColors of analyzeWebsiteColors
sortedColors(allElements) ==
    LET elements == SubSeq(allElements, 1, Min(MaxSample, Len(allElements)))
        obs == observations(elements)
        order == discoveryOrder(obs, <<>>)
        entries == [i \in 1..Len(order) |->
                      [color |-> order[i], count |-> countOf(obs, order[i])]]
        significant(e) == e.count >= 2
    IN  sortByCount(SelectSeq(entries, significant))

\* analyzeWebsiteColors(): the mapping, or an empty mapping for null
analyzeWebsiteColors(allElements) ==
    LET sorted == sortedColors(allElements)
    IN  IF sorted = <<>>
        THEN [hasMapping |-> FALSE, mapping |-> neutralMapping]
        ELSE [hasMapping |-> TRUE,
              mapping |-> createIntelligentMapping(
                              [i \in 1..Len(sorted) |-> sorted[i].color])]

(***************************************************************************)
(* Palette endpoint: the bodies it may answer with.                        *)
(***************************************************************************)
NoColors == [k \in {} |-> <<>>]

NoRules == [r \in {} |-> <<>>]

Bodies ==
    [ notObject |->
        [isObject |-> FALSE, colors |-> "absent", palette |-> NoColors,
         hasRules |-> FALSE, styling_rules |-> NoRules],
      noColors |->
        [isObject |-> TRUE, colors |-> "absent", palette |-> NoColors,
         hasRules |-> FALSE, styling_rules |-> NoRules],
      colorsString |->
        [isObject |-> TRUE, colors |-> "string", palette |-> NoColors,
         hasRules |-> FALSE, styling_rules |-> NoRules],
      scenario |->
        [isObject |-> TRUE, colors |-> "object",
         palette |-> [primary   |-> <<"0","0","2","0","4","c">>,
                      secondary |-> C7f7c75,
                      accent    |-> <<"b","b","a","f","7","1">>],
         hasRules |-> FALSE, styling_rules |-> NoRules],
      traditional |->
        [isObject |-> TRUE, colors |-> "object",
         palette |-> [primary    |-> <<" ","f","f","0","0","0","0"," ">>,
                      background |-> <<"F","F","F","F","F","F","F","F">>,
                      text       |-> <<>>],
         hasRules |-> TRUE,
         styling_rules |->
            [warning_container |->
                [background |-> Cffe945, text_color |-> C1b1b1b]]] ]

BodyNames == DOMAIN Bodies

\* validateThemeData(data): TRUE when it returns, FALSE when it throws
validateThemeData(data) ==
    /\ data.isObject
    /\ data.colors = "object"

(***************************************************************************)
(* Events and error handling.                                              *)
(***************************************************************************)
\* handleError(message, error) dispatching twice.
handleErrorTwice(evts, message, error) ==
    evts \o << [type |-> "cividis-theme-error",
                detail |-> [message |-> message, error |-> error]],
               [type |-> "cividis-theme-error",
                detail |-> [message |-> message, error |-> error]] >>

\* handleError(message, error): the events dispatched on window after it
handleError(evts, message, error) ==
    Append(evts, [type |-> "cividis-theme-error",
                  detail |-> [message |-> message, error |-> error]])

countEvents(evts, type) ==
    Cardinality({i \in 1..Len(evts) : evts[i].type = type})

(***************************************************************************)
(* The part of the engine and page state that fetchAndApplyTheme works on: *)
(* root style, currentTheme, injected style elements, dispatched events,   *)
(* and the exception in flight, if any.  written collects the variables    *)
(* the operation has set.                                                  *)
(***************************************************************************)
StyleIds == {"cividis-warning-styles", "cividis-secondary-styles"}

\* An applyTheme that stops after the first entry of the set.
applyThemeFirstEntryOnly(w, cssVariables) ==
    LET first == IF DOMAIN cssVariables = {} THEN {}
                 ELSE {CHOOSE v \in DOMAIN cssVariables : TRUE}
    IN  [w EXCEPT !.root = setProperties(@, [v \in first |-> cssVariables[v]]),
                  !.written = @ \cup first,
                  !.events = Append(@, [type |-> "cividis-theme-applied",
                                        detail |-> [variables |-> cssVariables]])]

\* applyTheme(cssVariables)
applyTheme(w, cssVariables) ==
    [w EXCEPT !.root = setProperties(@, cssVariables),
              !.written = @ \cup DOMAIN cssVariables,
              !.events = Append(@, [type |-> "cividis-theme-applied",
                                    detail |-> [variables |-> cssVariables]])]

\* What `${rule.field}` puts into the CSS text when the rule lacks the field.
Undefined == <<"u","n","d","e","f","i","n","e","d">>

\* The declarations both handlers interpolate from their rule.
HandledFields == {"background", "text_color"}

\* The rule block a handler generates from its rule: the template always
\* carries both declarations.
ruleBlock(rule) ==
    [f \in HandledFields |-> IF f \in DOMAIN rule THEN rule[f] ELSE Undefined]

\* Style elements of document.head with the given id, by position.
styleElements(head, id) == {i \in 1..Len(head) : head[i].id = id}

\* A handler that adds a new style element on every call.
setStyleContentAppending(head, id, css) ==
    Append(head, [id |-> id, content |-> <<css>>])

\* let styleElement = document.getElementById(id); if (!styleElement)
\* { create, set id, append to head }; styleElement.textContent = css.
\* An element's content is the sequence of rule blocks of its text.
setStyleContent(head, id, css) ==
    IF styleElements(head, id) = {}
    THEN Append(head, [id |-> id, content |-> <<css>>])
    ELSE LET first == CHOOSE i \in styleElements(head, id) :
                         \A j \in styleElements(head, id) : i <= j
         IN  [head EXCEPT ![first].content = <<css>>]

\* applyWarningContainerStyling(warningRule)
applyWarningContainerStyling(head, warningRule) ==
    setStyleContent(head, "cividis-warning-styles", ruleBlock(warningRule))

\* applySecondaryContainerStyling(secondaryRule)
applySecondaryContainerStyling(head, secondaryRule) ==
    setStyleContent(head, "cividis-secondary-styles", ruleBlock(secondaryRule))

\* applyStylingRules(stylingRules): the two rule names that have a handler
\* are applied, every other name is passed over.
applyStylingRules(w, stylingRules) ==
    LET w1 == IF "warning_container" \in DOMAIN stylingRules
              THEN [w EXCEPT !.styles = applyWarningContainerStyling(
                                @, stylingRules["warning_container"])]
              ELSE w
    IN  IF "secondary_container" \in DOMAIN stylingRules
        THEN [w1 EXCEPT !.styles = applySecondaryContainerStyling(
                                @, stylingRules["secondary_container"])]
        ELSE w1

FallbackColors ==
    [v \in {cssVar(cividisColors[i].key) : i \in 1..Len(cividisColors)} |->
        cividisColors[cividisColorOf(
            CHOOSE k \in {cividisColors[i].key : i \in 1..Len(cividisColors)} :
                cssVar(k) = v)].color]

\* The try block of fetchAndApplyTheme, given what fetchThemeData did.
fetchAndApplyThemeTry(w, fetched) ==
    IF fetched.threw
    THEN [w EXCEPT !.threw = TRUE, !.error = fetched.error]
    ELSE LET themeData == Bodies[fetched.body]
             cssVariables == transformToCSSVariables(themeData.palette)
             w1 == applyTheme(w, cssVariables)
             w2 == IF themeData.hasRules
                   THEN applyStylingRules(w1, themeData.styling_rules)
                   ELSE w1
         IN  [w2 EXCEPT !.currentTheme = fetched.body]

\* A catch block that substitutes a default palette.
fetchAndApplyThemeCatchFallback(w) ==
    IF w.threw
    THEN applyTheme(
            [w EXCEPT !.threw = FALSE,
                      !.events = handleError(@,
                         "Failed to fetch remote theme, using fallback",
                         w.error)],
            FallbackColors)
    ELSE w

\* A fetchAndApplyTheme without its catch block.
fetchAndApplyThemeNoCatch(w) == w

\* The catch block of fetchAndApplyTheme.
fetchAndApplyThemeCatch(w) ==
    IF w.threw
    THEN [w EXCEPT !.threw = FALSE,
                   !.events = handleError(@,
                      "Failed to fetch remote theme (no fallback, API required)",
                      w.error)]
    ELSE w

\* fetchAndApplyTheme(), once fetchThemeData has returned or thrown
fetchAndApplyTheme(w, fetched) ==
    fetchAndApplyThemeCatch(fetchAndApplyThemeTry(w, fetched))

\* The catch block of start().
startCatch(w) ==
    IF w.threw
    THEN [w EXCEPT !.threw = FALSE,
                   !.events = handleError(@, "Startup failed", w.error)]
    ELSE w

(***************************************************************************)
(* CTA Button Manager.  An element found by querySelector is "visible"     *)
(* when its offsetParent is not null and "hidden" otherwise; "none" means  *)
(* querySelector returned null.                                            *)
(***************************************************************************)
headerSelectors ==
    << "header", ".header", "#header",
       "nav", ".navbar", ".nav", ".navigation",
       "[role=banner]", "[role=navigation]",
       ".top-nav", ".main-nav", ".primary-nav",
       ".site-header", ".page-header",
       "header nav", "nav ul", ".menu" >>

navContainers == << "ul", ".nav-links", ".menu-items", "nav", ".navigation" >>

NoElement == 0

\* The loop of insertCTAButton over headerSelectors: the index of the
\* selector whose element targetElement holds when the loop ends, or
\* NoElement for null.  target is what the previous iteration assigned.
RECURSIVE findTarget(_, _, _)
findTarget(landmarks, i, target) ==
    IF i > Len(headerSelectors) THEN target
    ELSE IF landmarks[i] = "visible" THEN i
         ELSE findTarget(landmarks, i + 1,
                         IF landmarks[i] = "none" THEN NoElement ELSE i)

\* findBestInsertionPoint(headerElement)
RECURSIVE findBestInsertionPoint(_, _)
findBestInsertionPoint(nested, i) ==
    IF i > Len(navContainers) THEN "self"
    ELSE IF nested[i] = "visible" THEN navContainers[i]
         ELSE findBestInsertionPoint(nested, i + 1)

positionStyles == {"top-right", "bottom-right", "top-left", "bottom-left"}

\* createFloatingCTA(position): where the button ends up
createFloatingCTA(position) ==
    [parent |-> "body", container |-> "self", fixed |-> TRUE,
     corner |-> IF position \in positionStyles THEN position ELSE "top-right",
     parentVisible |-> TRUE]

\* insertCTAButton(): where the button ends up
insertCTAButton(pg, position) ==
    LET targetElement == findTarget(pg.landmarks, 1, NoElement)
    IN  IF targetElement # NoElement /\ position = "header"
        THEN [parent |-> headerSelectors[targetElement],
              container |-> findBestInsertionPoint(pg.nested, 1),
              fixed |-> FALSE, corner |-> "none",
              parentVisible |-> pg.landmarks[targetElement] = "visible"]
        ELSE createFloatingCTA(position)

CtaId == "cividis-cta-button"

\* ctaConfig.text, and the text of the emergency button
CtaText == "Cividis Theme"

LoadingText == "Loading..."

\* document.getElementById('cividis-cta-button') finds something
ctaInDocument(btns) == \E b \in btns : b.id = CtaId

\* An addResizeListener() that does not remove the previous listener.
addResizeListenerKeepOld(listeners, resizeListener, fresh) ==
    listeners \cup {fresh}

\* addResizeListener(): the resize listeners of the engine on window, after
\* the one held in this.resizeListener has been removed and the fresh one
\* added.
addResizeListener(listeners, resizeListener, fresh) ==
    (listeners \ {resizeListener}) \cup {fresh}

\* A createCTAButton that leaves the button it holds in the document.
createCTAButtonKeepOld(d, pg, position) ==
    [buttons |-> d.buttons \cup
                        {[el |-> d.nextEl, id |-> CtaId, owner |-> "engine",
                          text |-> CtaText, disabled |-> FALSE,
                          at |-> insertCTAButton(pg, position)]},
     ctaButton |-> d.nextEl,
     nextEl |-> d.nextEl + 1,
     created |-> d.created + 1,
     streak |-> d.streak + 1,
     resizeListener |-> d.nextEl,
     listeners |-> addResizeListener(d.listeners, d.resizeListener, d.nextEl),
     ran |-> d.ran,
     resized |-> d.resized]

\* createCTAButton(): d holds the document's buttons, the engine's
\* ctaButton reference and the next fresh element; created counts the
\* elements the engine has created, streak the createCTAButton calls made
\* in succession.  resizeListener is this.resizeListener, listeners the
\* engine's resize listeners attached to window, ran the listeners the
\* latest resize event ran and resized the buttons they restyled.
createCTAButton(d, pg, position) ==
    LET kept == {b \in d.buttons : b.el # d.ctaButton}
    IN  [buttons |-> kept \cup
                        {[el |-> d.nextEl, id |-> CtaId, owner |-> "engine",
                          text |-> CtaText, disabled |-> FALSE,
                          at |-> insertCTAButton(pg, position)]},
         ctaButton |-> d.nextEl,
         nextEl |-> d.nextEl + 1,
         created |-> d.created + 1,
         streak |-> d.streak + 1,
         resizeListener |-> d.nextEl,
         listeners |-> addResizeListener(d.listeners, d.resizeListener,
                                         d.nextEl),
         ran |-> d.ran,
         resized |-> d.resized]

(***************************************************************************)
(* Sample pages and configurations.                                        *)
(***************************************************************************)
Landmarks(f) ==
    [i \in 1..Len(headerSelectors) |->
        IF headerSelectors[i] \in DOMAIN f THEN f[headerSelectors[i]]
        ELSE "none"]

Nested(f) ==
    [i \in 1..Len(navContainers) |->
        IF navContainers[i] \in DOMAIN f THEN f[navContainers[i]]
        ELSE "none"]

NoMatch == [s \in {} |-> "none"]

SampleLandmarks ==
    { [landmarks |-> Landmarks(NoMatch), nested |-> Nested(NoMatch)],
      [landmarks |-> Landmarks(("header" :> "visible") @@ ("nav" :> "visible")
                               @@ ("header nav" :> "visible")
                               @@ ("nav ul" :> "visible")),
       nested |-> Nested(("ul" :> "visible") @@ ("nav" :> "visible"))],
      [landmarks |-> Landmarks(("header" :> "hidden") @@ (".navbar" :> "visible")),
       nested |-> Nested(("ul" :> "hidden"))],
      [landmarks |-> Landmarks(("header" :> "hidden") @@ ("nav" :> "hidden")
                               @@ ("header nav" :> "hidden")),
       nested |-> Nested(("nav" :> "hidden"))],
      [landmarks |-> Landmarks((".menu" :> "hidden")),
       nested |-> Nested(NoMatch)] }

Black == <<"#","0","0","0","0","0","0">>

SampleElements ==
    { << [bg |-> Cff0000, color |-> C0000ff, border |-> C0000ff],
         [bg |-> <<>>,    color |-> C0000ff, border |-> Cff0000],
         [bg |-> C008000, color |-> Black,   border |-> C0000ff] >> }

PlainElements == << [bg |-> Cffffff, color |-> Black, border |-> Black] >>

Pages ==
    { [landmarks |-> l.landmarks, nested |-> l.nested, elements |-> e] :
        l \in SampleLandmarks, e \in SampleElements \cup {PlainElements} }

\* Pages that differ in their layout only.
LayoutPages == {pg \in Pages : pg.elements = PlainElements}

\* Pages that differ in their colours only.
ColourPages == {pg \in Pages : pg.landmarks = Landmarks(NoMatch)}

Positions == {"header", "bottom-left"}

Configs ==
    [retryAttempts : 1..MaxRetryAttempts,
     retryDelay : {0, 500},
     position : Positions,
     intelligentMapping : BOOLEAN]

\* Configurations that differ in the retry and mapping settings only.
RetryConfigs == {c \in Configs : c.position = "header"}

\* Configurations that differ in the position and mapping settings only.
PositionConfigs ==
    {c \in Configs : c.retryAttempts = 1 /\ c.retryDelay = 500}

(***************************************************************************)
(* State.                                                                  *)
(***************************************************************************)
VARIABLES
    cfg,            \* this.config
    page,           \* the host page
    readyState,     \* document.readyState
    startPc,        \* where init()/start() stands
    forcePc,        \* where the forced-creation timers of the script stand
    analysis,       \* result of analyzeWebsiteColors awaited by start()
    calls,          \* the fetchAndApplyTheme calls: 0 is start()'s
    net,            \* GET requests in flight
    root,           \* custom properties on document.documentElement
    currentTheme,   \* this.currentTheme
    styles,         \* the style elements the engine added to document.head
    events,         \* events dispatched on window by the latest step
    isInitialized,  \* this.isInitialized
    dom,            \* buttons in the document, this.ctaButton, fresh element
    unhandled,      \* exceptions and rejections nobody caught
    ops,            \* what the host page has called so far
    evaluation,     \* a function of the engine applied on its own
    click,          \* the handleCTAClick call of the latest click
    toggleStates,   \* example server: own properties of toggleStates
    served,         \* example server: toggle requests served per key
    response        \* example server: its latest response

vars ==
    << cfg, page, readyState, startPc, forcePc, analysis, calls, net, root,
       currentTheme, styles, events, isInitialized, dom, unhandled, ops,
       evaluation, click, toggleStates, served, response >>

serverVars == << toggleStates, served, response >>

\* What the operations of the engine's life cycle leave alone.
others == << evaluation, click, serverVars >>

\* No click yet.  count is the number of clicks so far; the other fields
\* are those of the latest handleCTAClick call: its originalText, what
\* sendBeacon did, the beacons and no-cors requests it sent, the
\* notifications it showed and whether an exception left it.  via tells
\* which button was clicked, and originalButton is the reference the
\* emergency button's listener saved before it swapped this.ctaButton.
IdleClick ==
    [pc |-> "idle", count |-> 0, originalText |-> CtaText, beacon |-> "none",
     beacons |-> 0, fetches |-> 0, notified |-> 0, threw |-> FALSE,
     via |-> "engine", originalButton |-> 0]

NoEvaluation == [fn |-> "none"]

CallIds == 0..MaxRefresh

IdleCall ==
    [pc |-> "idle", attempt |-> 0, maxAttempts |-> 0, delay |-> 0,
     lastError |-> "none", timer |-> 0,
     requests |-> 0, fails |-> 0, sawInvalid |-> FALSE, waits |-> <<>>,
     errors |-> 0,
     rootBefore |-> EmptyRoot, themeBefore |-> Null,
     written |-> {}, escaped |-> FALSE, outcome |-> "none",
     destroyed |-> FALSE]

\* The example server as started: let toggleStates = {}
InitServer ==
    /\ toggleStates = [k \in {} |-> FALSE]
    /\ served = [k \in {} |-> 0]
    /\ response = [status |-> 0]

\* The engine as constructed.
InitEngine(configs, pages) ==
    /\ cfg \in configs
    /\ page \in pages
    /\ readyState \in {"loading", "complete"}
    /\ startPc = "constructed"
    /\ forcePc = "idle"
    /\ analysis = [hasMapping |-> FALSE, mapping |-> neutralMapping]
    /\ calls = [c \in CallIds |-> IdleCall]
    /\ net = {}
    /\ root = EmptyRoot
    /\ currentTheme = Null
    /\ styles = <<>>
    /\ events = <<>>
    /\ isInitialized = FALSE
    /\ dom = [buttons |-> {}, ctaButton |-> NoElement, nextEl |-> 1,
              created |-> 0, streak |-> 0,
              resizeListener |-> NoElement, listeners |-> {},
              ran |-> {}, resized |-> {}]
    /\ unhandled = 0
    /\ ops = [refresh |-> 0, rejected |-> 0, create |-> 0, destroy |-> 0]
    /\ click = IdleClick
    /\ InitServer

\* The engine as constructed, with no function applied on its own.
InitWith(configs, pages) ==
    /\ InitEngine(configs, pages)
    /\ evaluation = NoEvaluation

World ==
    [root |-> root, currentTheme |-> currentTheme, styles |-> styles,
     events |-> <<>>, written |-> {}, threw |-> FALSE, error |-> "none"]

\* The records of finished calls are dropped when a new call begins.
retire(cs) == [c \in CallIds |-> IF cs[c].pc = "done" THEN IdleCall ELSE cs[c]]

(***************************************************************************)
(* fetchThemeData.                                                         *)
(***************************************************************************)
\* const maxAttempts = this.config.retryAttempts || 3
maxAttemptsOf(config) ==
    IF config.retryAttempts = 0 THEN DefaultRetryAttempts
    ELSE config.retryAttempts

\* const delay = this.config.retryDelay || 1000
delayOf(config) ==
    IF config.retryDelay = 0 THEN DefaultRetryDelay ELSE config.retryDelay

\* fetchThemeData() up to its first await: the first request is issued.
beginCall(w) ==
    [IdleCall EXCEPT !.pc = "fetching",
                     !.maxAttempts = maxAttemptsOf(cfg),
                     !.delay = delayOf(cfg),
                     !.requests = 1,
                     !.rootBefore = w.root,
                     !.themeBefore = w.currentTheme]

request(c, n) == [call |-> c, n |-> n]

\* The catch block of the retry loop: the call waits for the delay when
\* attempts remain, and otherwise does attempt++ and leaves the loop to
\* throw lastError.
afterFailedAttempt(call, kind) ==
    LET failed == [call EXCEPT !.lastError = kind, !.fails = @ + 1,
                               !.sawInvalid = @ \/ kind = "validation"]
    IN  IF call.attempt < call.maxAttempts - 1
        THEN [failed EXCEPT !.pc = "waiting", !.timer = call.delay,
                            !.waits = Append(@, call.delay)]
        ELSE [failed EXCEPT !.pc = "throwing", !.attempt = @ + 1]

(***************************************************************************)
(* start().                                                                *)
(***************************************************************************)
\* A start() that issues the first request before it applies the mapping.
StartBodyFetchFirst(mapped) ==
    LET w == IF mapped.hasMapping THEN applyTheme(World, mapped.mapping)
             ELSE World
    IN  /\ root' = w.root
        /\ events' = w.events
        /\ dom' = createCTAButton(dom, page, cfg.position)
        /\ calls' = [calls EXCEPT ![0] = beginCall(World)]
        /\ net' = net \cup {request(0, 1)}
        /\ startPc' = "fetching"

\* start() from "Create CTA button" to the first await of fetchThemeData,
\* after the intelligent mapping (if any) has been applied.
StartBody(mapped) ==
    LET w == IF mapped.hasMapping THEN applyTheme(World, mapped.mapping)
             ELSE World
    IN  /\ root' = w.root
        /\ events' = w.events
        /\ dom' = createCTAButton(dom, page, cfg.position)
        /\ calls' = [calls EXCEPT ![0] = beginCall(w)]
        /\ net' = net \cup {request(0, 1)}
        /\ startPc' = "fetching"

\* start() up to its first await.
StartSync ==
    IF cfg.intelligentMapping
    THEN /\ analysis' = analyzeWebsiteColors(page.elements)
         /\ startPc' = "analyzed"
         /\ events' = <<>>
         /\ UNCHANGED <<root, dom, calls, net>>
    ELSE /\ StartBody([hasMapping |-> FALSE, mapping |-> neutralMapping])
         /\ UNCHANGED analysis

\* init(), called by the constructor, and the script's registration of its
\* own DOMContentLoaded listener.
init ==
    /\ startPc = "constructed"
    /\ IF readyState = "loading"
       THEN /\ startPc' = "waitDOM"
            /\ forcePc' = "waitDOM"
            /\ events' = <<>>
            /\ UNCHANGED <<analysis, root, dom, calls, net>>
       ELSE /\ StartSync
            /\ forcePc' = "never"
    /\ UNCHANGED <<others, cfg, page, readyState, currentTheme, styles,
                   isInitialized, unhandled, ops>>

\* DOMContentLoaded fires: the engine's listener runs start(), the
\* script's listener arms the forced-creation timer.
DOMContentLoaded ==
    /\ readyState = "loading"
    /\ startPc = "waitDOM"
    /\ readyState' = "interactive"
    /\ StartSync
    /\ forcePc' = "timer1"
    /\ UNCHANGED <<others, cfg, page, currentTheme, styles, isInitialized,
                   unhandled, ops>>

\* start() resumes with the result of analyzeWebsiteColors.
StartContinue ==
    /\ startPc = "analyzed"
    /\ StartBody(analysis)
    /\ UNCHANGED <<others, cfg, page, readyState, forcePc, analysis, currentTheme,
                   styles, isInitialized, unhandled, ops>>

(***************************************************************************)
(* fetchThemeData / fetchAndApplyTheme: the end of an attempt.             *)
(***************************************************************************)
\* fetchThemeData has returned or thrown: the rest of fetchAndApplyTheme
\* runs, then the caller resumes (start() sets isInitialized; refreshTheme
\* passes an exception on to its caller).
Finish(c, call, fetched) ==
    LET w == fetchAndApplyTheme(World, fetched)
        w2 == IF c = 0 THEN startCatch(w) ELSE w
    IN  /\ calls' = [calls EXCEPT ![c] =
                        [call EXCEPT !.pc = "done",
                                     !.written = w.written,
                                     !.escaped = w.threw,
                                     !.errors = @ + countEvents(w2.events,
                                                   "cividis-theme-error"),
                                     !.outcome = IF fetched.threw THEN "error"
                                                 ELSE "applied"]]
        /\ root' = w2.root
        /\ currentTheme' = w2.currentTheme
        /\ styles' = w2.styles
        /\ events' = w2.events
        /\ isInitialized' = IF c = 0 /\ ~w.threw THEN TRUE ELSE isInitialized
        /\ startPc' = IF c = 0 THEN "done" ELSE startPc
        /\ unhandled' = IF c # 0 /\ w.threw THEN unhandled + 1 ELSE unhandled

\* An attempt failed with an error of the given kind.
AttemptFailed(c, call, kind) ==
    LET next == afterFailedAttempt(call, kind)
    IN  /\ net' = (net \ {request(c, call.requests)}) \cup
                    (IF next.requests > call.requests
                     THEN {request(c, next.requests)} ELSE {})
        /\ IF next.pc = "throwing"
           THEN Finish(c, next, [threw |-> TRUE, error |-> kind,
                                 body |-> "notObject"])
           ELSE /\ calls' = [calls EXCEPT ![c] = next]
                /\ events' = <<>>
                /\ UNCHANGED <<root, currentTheme, styles,
                               isInitialized, startPc, unhandled>>

Awaiting(c) ==
    /\ calls[c].pc = "fetching"
    /\ request(c, calls[c].requests) \in net

\* The endpoint answers 2xx with a JSON body.
ResponseOk(c, body) ==
    /\ Awaiting(c)
    /\ IF validateThemeData(Bodies[body])
       THEN /\ net' = net \ {request(c, calls[c].requests)}
            /\ Finish(c, calls[c], [threw |-> FALSE, error |-> "none",
                                    body |-> body])
       ELSE AttemptFailed(c, calls[c], "validation")
    /\ UNCHANGED <<others, cfg, page, readyState, forcePc, analysis, dom, ops>>

\* The endpoint answers with a status outside 2xx.
ResponseNotOk(c) ==
    /\ Awaiting(c)
    /\ AttemptFailed(c, calls[c], "http")
    /\ UNCHANGED <<others, cfg, page, readyState, forcePc, analysis, dom, ops>>

\* fetch() rejects: network failure.
FetchRejects(c) ==
    /\ Awaiting(c)
    /\ AttemptFailed(c, calls[c], "network")
    /\ UNCHANGED <<others, cfg, page, readyState, forcePc, analysis, dom, ops>>

\* The status is 2xx but response.json() rejects.
JsonRejects(c) ==
    /\ Awaiting(c)
    /\ AttemptFailed(c, calls[c], "json")
    /\ UNCHANGED <<others, cfg, page, readyState, forcePc, analysis, dom, ops>>

\* The retry delay has elapsed: attempt++ and the next request goes out.
DelayElapsed(c) ==
    /\ calls[c].pc = "waiting"
    /\ calls' = [calls EXCEPT ![c] =
                    [@ EXCEPT !.pc = "fetching", !.timer = 0,
                              !.attempt = @ + 1, !.requests = @ + 1]]
    /\ net' = net \cup {request(c, calls[c].requests + 1)}
    /\ events' = <<>>
    /\ UNCHANGED <<others, cfg, page, readyState, startPc, forcePc, analysis, root,
                   currentTheme, styles, isInitialized, dom,
                   unhandled, ops>>

(***************************************************************************)
(* Public control surface and the script's timers.                         *)
(***************************************************************************)
NotInitialized == "Theme engine not initialized"

\* A refreshTheme() without its guard on isInitialized.
refreshThemeUnguarded ==
    /\ ops.refresh < MaxRefresh
    /\ \A c \in CallIds \ {0} : calls[c].pc \in {"idle", "done"}
    /\ calls' = [retire(calls) EXCEPT ![ops.refresh + 1] = beginCall(World)]
    /\ ops' = [ops EXCEPT !.refresh = @ + 1]
    /\ net' = net \cup {request(ops.refresh + 1, 1)}
    /\ events' = <<>>
    /\ UNCHANGED <<others, cfg, page, readyState, startPc, forcePc, analysis,
                   root, currentTheme, styles, isInitialized, dom, unhandled>>

\* refreshTheme(); the host page awaits one call before it makes the next
refreshTheme ==
    /\ ops.refresh < MaxRefresh
    /\ \A c \in CallIds \ {0} : calls[c].pc \in {"idle", "done"}
    /\ LET c == ops.refresh + 1
       IN  IF ~isInitialized
           THEN /\ calls' = [retire(calls) EXCEPT ![c] =
                                [IdleCall EXCEPT !.pc = "done",
                                                 !.lastError = NotInitialized,
                                                 !.outcome = "rejected"]]
                /\ ops' = [ops EXCEPT !.refresh = @ + 1, !.rejected = @ + 1]
                /\ UNCHANGED net
           ELSE /\ calls' = [retire(calls) EXCEPT ![c] = beginCall(World)]
                /\ ops' = [ops EXCEPT !.refresh = @ + 1]
                /\ net' = net \cup {request(c, 1)}
    /\ events' = <<>>
    /\ UNCHANGED <<others, cfg, page, readyState, startPc, forcePc, analysis, root,
                   currentTheme, styles, isInitialized, dom,
                   unhandled>>

\* createCTAButton(), called by the host page
CreateCTAButton ==
    /\ ops.create < MaxCreate
    /\ startPc # "constructed"
    /\ dom' = createCTAButton(dom, page, cfg.position)
    /\ ops' = [ops EXCEPT !.create = @ + 1]
    /\ events' = <<>>
    /\ UNCHANGED <<others, cfg, page, readyState, startPc, forcePc, analysis, calls,
                   net, root, currentTheme, styles, isInitialized,
                   unhandled>>

\* destroy(); the calls that are in flight are marked as overtaken by it.
destroy ==
    /\ ops.destroy < MaxDestroy
    /\ startPc # "constructed"
    /\ calls' = [c \in CallIds |->
                    IF calls[c].pc \in {"fetching", "waiting"}
                    THEN [calls[c] EXCEPT !.destroyed = TRUE]
                    ELSE calls[c]]
    /\ dom' = [dom EXCEPT !.buttons = {b \in @ : b.el # dom.ctaButton},
                          !.ctaButton = NoElement,
                          !.streak = 0]
    /\ isInitialized' = FALSE
    /\ currentTheme' = Null
    /\ ops' = [ops EXCEPT !.destroy = @ + 1]
    /\ events' = <<>>
    /\ UNCHANGED <<others, cfg, page, readyState, startPc, forcePc, analysis,
                   net, root, styles, unhandled>>

\* The continuation of start() after await analyzeWebsiteColors() is a
\* microtask: it runs before any timer, event or network callback.
StartPending == startPc = "analyzed"

\* A resize event on window: every attached listener of the engine runs,
\* and restyles this.ctaButton when the engine holds one.
Resize ==
    /\ dom.listeners # {}
    /\ ~StartPending
    /\ dom' = [dom EXCEPT !.ran = dom.listeners,
                          !.resized = IF dom.ctaButton # NoElement
                                      THEN {dom.ctaButton} ELSE {}]
    /\ events' = <<>>
    /\ UNCHANGED <<others, cfg, page, readyState, startPc, forcePc, analysis,
                   calls, net, root, currentTheme, styles, isInitialized,
                   unhandled, ops>>

\* The first timer of the script: window.cividisTheme.createCTAButton()
ForceCreate ==
    /\ forcePc = "timer1"
    /\ ~StartPending
    /\ forcePc' = "timer2"
    /\ dom' = createCTAButton(dom, page, cfg.position)
    /\ events' = <<>>
    /\ UNCHANGED <<others, cfg, page, readyState, startPc, analysis, calls, net,
                   root, currentTheme, styles, isInitialized,
                   unhandled, ops>>

\* The second timer: the emergency button, made by hand when the document
\* has no element with the id and 'header nav' matches.
EmergencyCreate ==
    /\ forcePc = "timer2"
    /\ forcePc' = "done"
    /\ LET headerNav ==
            CHOOSE i \in 1..Len(headerSelectors) :
                headerSelectors[i] = "header nav"
       IN  IF ~ctaInDocument(dom.buttons) /\ page.landmarks[headerNav] # "none"
           THEN dom' = [dom EXCEPT
                    !.buttons = @ \cup
                        {[el |-> dom.nextEl, id |-> CtaId,
                          owner |-> "emergency",
                          text |-> CtaText, disabled |-> FALSE,
                          at |-> [parent |-> "header nav",
                                  container |-> "self", fixed |-> FALSE,
                                  corner |-> "none",
                                  parentVisible |->
                                    page.landmarks[headerNav] = "visible"]]},
                    !.nextEl = @ + 1,
                    !.streak = 0]
           ELSE dom' = [dom EXCEPT !.streak = 0]
    /\ events' = <<>>
    /\ UNCHANGED <<others, cfg, page, readyState, startPc, analysis, calls, net,
                   root, currentTheme, styles, isInitialized,
                   unhandled, ops>>

Next ==
    \/ init
    \/ DOMContentLoaded
    \/ StartContinue
    \/ \E c \in CallIds, body \in BodyNames : ResponseOk(c, body)
    \/ \E c \in CallIds : ResponseNotOk(c)
    \/ \E c \in CallIds : FetchRejects(c)
    \/ \E c \in CallIds : JsonRejects(c)
    \/ \E c \in CallIds : DelayElapsed(c)
    \/ refreshTheme
    \/ CreateCTAButton
    \/ destroy
    \/ ForceCreate
    \/ EmergencyCreate
    \/ Resize

Init == InitWith(Configs, Pages)

Spec == Init /\ [][Next]_vars

(***************************************************************************)
(* The engine's two halves.  The fetch half leaves out the operations that *)
(* only touch the document's buttons; the button half leaves out the       *)
(* answers of the endpoint, which touch no button.  Neither half reads     *)
(* what the operations left out of it write.                               *)
(***************************************************************************)
NextFetch ==
    \/ init
    \/ DOMContentLoaded
    \/ StartContinue
    \/ \E c \in CallIds, body \in BodyNames : ResponseOk(c, body)
    \/ \E c \in CallIds : ResponseNotOk(c)
    \/ \E c \in CallIds : FetchRejects(c)
    \/ \E c \in CallIds : JsonRejects(c)
    \/ \E c \in CallIds : DelayElapsed(c)
    \/ refreshTheme
    \/ destroy

SpecFetch == InitWith(RetryConfigs, ColourPages) /\ [][NextFetch]_vars

NextCta ==
    \/ init
    \/ DOMContentLoaded
    \/ StartContinue
    \/ CreateCTAButton
    \/ destroy
    \/ ForceCreate
    \/ EmergencyCreate
    \/ Resize

SpecCta == InitWith(PositionConfigs, LayoutPages) /\ [][NextCta]_vars

\* The fetch half with the scheduling the browser guarantees to a call
\* that has begun: the pending continuation of start() runs and an armed
\* retry timer fires.  The endpoint is under no obligation to answer, and
\* the host page under none to call the public operations.
FairSpecFetch ==
    /\ SpecFetch
    /\ WF_vars(StartContinue)
    /\ \A c \in CallIds : WF_vars(DelayElapsed(c))

(***************************************************************************)
(* Properties.                                                             *)
(***************************************************************************)
Started(c) == calls[c].pc \in {"fetching", "waiting", "done"}
                /\ calls[c].outcome # "rejected"

Failed(c) == calls[c].pc = "done" /\ calls[c].outcome = "error"

inFlight(c) == {r \in net : r.call = c}

\* C1: when every attempt of a fetchAndApplyTheme call has failed, the call
\* has written no CSS variable: the root element holds what it held when
\* the call began (the intelligent mapping included) and no palette has
\* been substituted.
C1_FailedFetchWritesNothing ==
    \A c \in CallIds :
        Failed(c) => /\ calls[c].written = {}
                     /\ root = calls[c].rootBefore

\* Reached: all three configured attempts failed with transport errors on a
\* page whose intelligent mapping had been applied before.
C1_Witness ==
    \E c \in CallIds :
        /\ Failed(c)
        /\ calls[c].fails = 3
        /\ ~calls[c].sawInvalid
        /\ calls[c].lastError \in {"http", "network"}
        /\ calls[c].rootBefore # EmptyRoot

\* C2: a fetchAndApplyTheme call whose attempts all failed has dispatched
\* exactly one cividis-theme-error event, and a step dispatches one only
\* when it ends the final attempt of a call: no call still fetching or
\* waiting has dispatched any.
C2_OneErrorEventAfterFinalAttempt ==
    /\ \A c \in CallIds :
        /\ Failed(c) => calls[c].errors = 1
        /\ calls[c].pc \in {"fetching", "waiting"} => calls[c].errors = 0
    /\ countEvents(events, "cividis-theme-error") > 0 =>
          /\ countEvents(events, "cividis-theme-error") = 1
          /\ \E c \in CallIds :
                Failed(c) /\ calls[c].fails = calls[c].maxAttempts

\* Reached: the step that ends the third failed attempt dispatches the event.
C2_Witness ==
    /\ countEvents(events, "cividis-theme-error") = 1
    /\ \E c \in CallIds :
        Failed(c) /\ calls[c].fails = 3 /\ calls[c].errors = 1

\* C3: a fetchThemeData call issues at most retryAttempts requests, has at
\* most one in flight, issues none after a success, and waits retryDelay
\* after each failed attempt but the last.
C3_SequentialBoundedRetry ==
    \A c \in CallIds :
        Started(c) =>
            /\ calls[c].requests <= cfg.retryAttempts
            /\ Cardinality(inFlight(c)) <= 1
            /\ calls[c].outcome = "applied" =>
                  calls[c].requests = calls[c].fails + 1 /\ inFlight(c) = {}
            /\ \A i \in 1..Len(calls[c].waits) :
                  calls[c].waits[i] = cfg.retryDelay
            /\ Failed(c) => Len(calls[c].waits) = calls[c].fails - 1

\* C4: every attempt ends, so every fetchThemeData call eventually returns
\* or throws.
C4_EveryCallEnds ==
    \A c \in CallIds : (calls[c].pc = "fetching") ~> (calls[c].pc = "done")

\* C5: once a 2xx response has failed validation, the call issues no
\* further request: nothing is in flight for it and it waits for no retry.
C5_ValidationFailureNotRetried ==
    \A c \in CallIds :
        calls[c].sawInvalid => calls[c].pc = "done" /\ inFlight(c) = {}

\* C6: a fetchAndApplyTheme call that received a 2xx response without a
\* colors object finishes with no exception escaping it, with no CSS
\* variable written and with currentTheme as it was.
C6_InvalidResponseWritesNothing ==
    \A c \in CallIds :
        (calls[c].pc = "done" /\ calls[c].sawInvalid) =>
            /\ ~calls[c].escaped
            /\ calls[c].written = {}
            /\ root = calls[c].rootBefore
            /\ currentTheme = calls[c].themeBefore

ctaElements == {b \in dom.buttons : b.id = CtaId}

\* C8: after two createCTAButton calls in succession the document holds
\* exactly one element with id cividis-cta-button.
C8_TwoCallsOneButton ==
    dom.streak >= 2 => Cardinality(ctaElements) = 1

\* C9: createCTAButton creates no element while the document holds one with
\* id cividis-cta-button.
C9_NoCreationWhenPresent ==
    [][ctaInDocument(dom.buttons) => dom'.created = dom.created]_vars

noVisibleCandidate ==
    \A i \in 1..Len(headerSelectors) : page.landmarks[i] # "visible"

\* C10: with position 'header' and no visible header/nav candidate, the
\* button the engine holds is in the document, appended to document.body
\* with position fixed at a corner.
C10_FloatingFallback ==
    (cfg.position = "header" /\ noVisibleCandidate
        /\ dom.ctaButton # NoElement) =>
        \E b \in dom.buttons :
            /\ b.el = dom.ctaButton
            /\ b.at.parent = "body"
            /\ b.at.fixed
            /\ b.at.corner \in positionStyles

(***************************************************************************)
(* Functions of the engine applied on their own: the argument is drawn     *)
(* from a sample, the function is applied once, the engine stays as        *)
(* constructed.                                                            *)
(***************************************************************************)
engineVarsOnly ==
    << cfg, page, readyState, startPc, forcePc, analysis, calls, net, root,
       currentTheme, styles, events, isInitialized, dom, unhandled, ops >>

engineVars ==
    << cfg, page, readyState, startPc, forcePc, analysis, calls, net, root,
       currentTheme, styles, events, isInitialized, dom, unhandled, ops,
       click, serverVars >>

EngineAsConstructed ==
    InitEngine({c \in PositionConfigs :
                c.position = "header" /\ c.intelligentMapping},
             {pg \in LayoutPages : pg.landmarks = Landmarks(NoMatch)})
      /\ readyState = "loading"

\* JavaScript values handed to normalizeColor: strings, and values of
\* other types (typeof color !== 'string').
Str(chars) == [type |-> "string", chars |-> chars]

NonStrings == {[type |-> t, chars |-> <<>>] : t \in {"number", "object", "undefined"}}

ColorBodies ==
    { <<"f","f","0","0","0","0">>,
      <<"F","F","A","A","0","9">>,
      <<"0","0","2","0","4","c">>,
      <<"f","f","0","0","0","0","8","0">>,
      <<"f","f","f">>,
      <<"f","f","0","0","0">>,
      <<"f","f","0","0","0","0","0">>,
      <<"f","f","0","0","0","0","f","f","f">>,
      <<"g","g","0","0","0","0">>,
      <<"f","f"," ","0","0","0">>,
      <<"r","e","d">>,
      <<"r","g","b","(","0",","," ","0",","," ","0",")">>,
      <<"v","a","r","(","-","-","x",")">>,
      <<>> }

Pads == { <<>>, <<" ">>, <<"\t">>, <<"\n", " ">> }

ColorInputs ==
    {Str(l \o h \o b \o r) :
        l \in Pads, h \in {<<>>, <<"#">>}, b \in ColorBodies, r \in Pads}
      \cup NonStrings

\* normalizeColor(color) for any JavaScript value
normalizeColorCall(color) ==
    IF color.type # "string" THEN color
    ELSE Str(normalizeColor(color.chars))

NormalizeColor ==
    /\ evaluation.fn = "normalizeColor"
    /\ ~evaluation.done
    /\ evaluation' = [evaluation EXCEPT
                        !.result = normalizeColorCall(evaluation.arg),
                        !.done = TRUE]
    /\ UNCHANGED engineVars

InitNormalize ==
    /\ EngineAsConstructed
    /\ evaluation \in
          {[fn |-> "normalizeColor", arg |-> a, result |-> Str(<<>>),
            done |-> FALSE, threw |-> FALSE] : a \in ColorInputs}

SpecNormalize == InitNormalize /\ [][NormalizeColor]_vars

\* s is exactly 6 or 8 hex digits.
SixOrEightHexDigits(s) ==
    /\ Len(s) = 6 \/ Len(s) = 8
    /\ \A i \in 1..Len(s) :
          s[i] \in {"0","1","2","3","4","5","6","7","8","9",
                    "a","b","c","d","e","f","A","B","C","D","E","F"}

IsSpace(ch) == ch \in {" ", "\t", "\n"}

\* s[i..j] is s without its leading and trailing whitespace.
StrippedAt(s, i, j) ==
    /\ \A k \in 1..Len(s) : (k < i \/ k > j) => IsSpace(s[k])
    /\ j >= i => ~IsSpace(s[i]) /\ ~IsSpace(s[j])

\* C11 as stated: normalizeColor returns '#' followed by s for every string
\* s of exactly 6 or 8 hex digits, returns every other input unchanged and
\* raises no error.
C11_NormalizeColorAsStated ==
    (evaluation.fn = "normalizeColor" /\ evaluation.done) =>
        /\ ~evaluation.threw
        /\ IF evaluation.arg.type = "string"
              /\ SixOrEightHexDigits(evaluation.arg.chars)
           THEN evaluation.result = Str(<<"#">> \o evaluation.arg.chars)
           ELSE evaluation.result = evaluation.arg

\* C11 amended: normalizeColor strips the leading and trailing whitespace
\* of a string; it returns '#' followed by the stripped string when that is
\* exactly 6 or 8 hex digits and the stripped string otherwise; a value
\* that is no string is returned unchanged; it raises no error.
C11_NormalizeColorStripped ==
    (evaluation.fn = "normalizeColor" /\ evaluation.done) =>
        /\ ~evaluation.threw
        /\ evaluation.arg.type # "string" =>
              evaluation.result = evaluation.arg
        /\ evaluation.arg.type = "string" =>
              \E i \in 1..(Len(evaluation.arg.chars) + 1) :
                \E j \in (i - 1)..Len(evaluation.arg.chars) :
                  LET t == SubSeq(evaluation.arg.chars, i, j)
                  IN  /\ StrippedAt(evaluation.arg.chars, i, j)
                      /\ evaluation.result =
                            Str(IF SixOrEightHexDigits(t)
                                THEN <<"#">> \o t ELSE t)

\* Reached: eight hex digits between whitespace came back prefixed and
\* without the whitespace.
C11_Witness ==
    /\ evaluation.fn = "normalizeColor"
    /\ evaluation.done
    /\ evaluation.arg = Str(<<"\t","f","f","0","0","0","0","8","0","\n"," ">>)
    /\ evaluation.result = Str(<<"#","f","f","0","0","0","0","8","0">>)

(***************************************************************************)
(* createIntelligentMapping applied on its own.                            *)
(***************************************************************************)
DetectedPalette ==
    [i \in 1..10 |->
        <<"#", "a", "0", "0", "0", "0",
          <<"0","1","2","3","4","5","6","7","8","9">>[i]>>]

\* Ranked lists of distinct detected colours.
DetectedLists ==
    {[k \in 1..n |-> DetectedPalette[((k + r - 1) % 10) + 1]] :
        n \in 1..MaxDetected, r \in 0..9}

CreateIntelligentMapping ==
    /\ evaluation.fn = "createIntelligentMapping"
    /\ ~evaluation.done
    /\ evaluation' = [evaluation EXCEPT
                        !.writes = mappingWrites(evaluation.arg),
                        !.result = createIntelligentMapping(evaluation.arg),
                        !.done = TRUE]
    /\ UNCHANGED engineVars

InitMapping ==
    /\ EngineAsConstructed
    /\ evaluation \in
          {[fn |-> "createIntelligentMapping", arg |-> d, writes |-> <<>>,
            result |-> neutralMapping, done |-> FALSE] : d \in DetectedLists}

SpecMapping == InitMapping /\ [][CreateIntelligentMapping]_vars

\* The slot the claim gives to the colour of rank k.
SlotOfRank(k) ==
    IF k <= 6
    THEN <<"primary", "secondary", "accent", "success", "warning", "info">>[k]
    ELSE <<"info", "accent", "secondary">>[((k - 7) % 3) + 1]

C14_DestroyReleasesButtonAndListener ==
    [][ ops'.destroy # ops.destroy =>
          /\ \A b \in dom'.buttons : b.el # dom.ctaButton
          /\ dom'.ctaButton = NoElement
          /\ dom'.listeners = {} ]_vars

(***************************************************************************)
(* handleCTAClick.  A click reaches the handler when the engine's button   *)
(* is in the document and enabled.  sendBeacon answers at once; the        *)
(* no-cors fetch is awaited, and until it settles other operations run.    *)
(***************************************************************************)
BeaconOutcomes == {"accepted", "refused", "throws", "unavailable"}

engineButton(d) == {b \in d.buttons : b.el = d.ctaButton}

\* this.ctaButton.textContent = text; this.ctaButton.disabled = disabled
setCtaButton(d, text, disabled) ==
    [d EXCEPT !.buttons =
        {IF b.el = d.ctaButton
         THEN [b EXCEPT !.text = text, !.disabled = disabled] ELSE b :
            b \in d.buttons}]

\* The end of handleCTAClick, in its try block or its catch block alike:
\* the text is restored, the button enabled and the feedback shown.  With
\* this.ctaButton null the assignment throws, in the try block and again in
\* the catch block, and the exception leaves the handler.
finishClick(k, d) ==
    IF d.ctaButton = NoElement
    THEN [click |-> [k EXCEPT !.pc = "idle", !.threw = TRUE], dom |-> d]
    ELSE [click |-> [k EXCEPT !.pc = "idle", !.notified = @ + 1],
          dom |-> setCtaButton(d, k.originalText, FALSE)]

\* A delivery that sends the no-cors request whatever sendBeacon did.
deliverToggleBoth(beacon) ==
    [beacons |-> IF beacon = "unavailable" THEN 0 ELSE 1, fetches |-> 1]

\* The delivery of the toggle request: sendBeacon is called when it is a
\* function, and the no-cors fetch follows if (!requestSucceeded).
deliverToggle(beacon) ==
    [beacons |-> IF beacon = "unavailable" THEN 0 ELSE 1,
     fetches |-> IF beacon = "accepted" THEN 0 ELSE 1]

\* A click on the engine's button: handleCTAClick up to its first await, or
\* to its end when the beacon is accepted.
Click(beacon) ==
    /\ click.pc = "idle"
    /\ ~StartPending
    /\ click.count < MaxClicks
    /\ \E b \in engineButton(dom) : ~b.disabled
    /\ LET originalText == (CHOOSE b \in engineButton(dom) : TRUE).text
           sent == deliverToggle(beacon)
           k == [IdleClick EXCEPT
                    !.count = click.count + 1,
                    !.originalText = originalText,
                    !.beacon = beacon,
                    !.beacons = sent.beacons,
                    !.fetches = sent.fetches]
           loading == setCtaButton(dom, LoadingText, TRUE)
       IN  IF sent.fetches = 0
           THEN LET f == finishClick(k, loading)
                IN  click' = f.click /\ dom' = f.dom
           ELSE /\ click' = [k EXCEPT !.pc = "fetching"]
                /\ dom' = loading
    /\ events' = <<>>
    /\ UNCHANGED <<evaluation, serverVars, cfg, page, readyState, startPc,
                   forcePc, analysis, calls, net, root, currentTheme, styles,
                   isInitialized, unhandled, ops>>

\* finally { window.cividisTheme.ctaButton = originalButton } of the
\* emergency button's listener, once handleCTAClick has settled.
restoreReference(k, d) ==
    IF k.via = "emergency" THEN [d EXCEPT !.ctaButton = k.originalButton]
    ELSE d

emergencyButton(d) == {b \in d.buttons : b.owner = "emergency"}

\* A click on the emergency button: its listener points this.ctaButton at
\* the emergency button and awaits handleCTAClick, which runs to its first
\* await, or to its end when the beacon is accepted.
EmergencyClick(beacon) ==
    /\ click.pc = "idle"
    /\ ~StartPending
    /\ click.count < MaxClicks
    /\ \E e \in emergencyButton(dom) :
          /\ ~e.disabled
          /\ LET swapped == [dom EXCEPT !.ctaButton = e.el]
                 sent == deliverToggle(beacon)
                 k == [IdleClick EXCEPT
                          !.count = click.count + 1,
                          !.originalText = e.text,
                          !.beacon = beacon,
                          !.beacons = sent.beacons,
                          !.fetches = sent.fetches,
                          !.via = "emergency",
                          !.originalButton = dom.ctaButton]
                 loading == setCtaButton(swapped, LoadingText, TRUE)
             IN  IF sent.fetches = 0
                 THEN LET f == finishClick(k, loading)
                      IN  /\ click' = f.click
                          /\ dom' = restoreReference(k, f.dom)
                 ELSE /\ click' = [k EXCEPT !.pc = "fetching"]
                      /\ dom' = loading
    /\ events' = <<>>
    /\ UNCHANGED <<evaluation, serverVars, cfg, page, readyState, startPc,
                   forcePc, analysis, calls, net, root, currentTheme, styles,
                   isInitialized, unhandled, ops>>

\* The no-cors fetch settles (resolved or rejected): the rest of
\* handleCTAClick runs.
ToggleFetchSettles(resolved) ==
    /\ click.pc = "fetching"
    /\ LET f == finishClick(click, dom)
       IN  /\ click' = f.click
           /\ dom' = restoreReference(click, f.dom)
           /\ unhandled' = IF f.click.threw THEN unhandled + 1 ELSE unhandled
    /\ events' = <<>>
    /\ UNCHANGED <<evaluation, serverVars, cfg, page, readyState, startPc,
                   forcePc, analysis, calls, net, root, currentTheme, styles,
                   isInitialized, ops>>

NextClick ==
    \/ init
    \/ DOMContentLoaded
    \/ StartContinue
    \/ \E beacon \in BeaconOutcomes : Click(beacon)
    \/ \E resolved \in BOOLEAN : ToggleFetchSettles(resolved)
    \/ destroy
    \/ ForceCreate

SpecClick == InitWith(PositionConfigs, LayoutPages) /\ [][NextClick]_vars

\* C15: every click on the CTA button dispatches exactly one
\* cividis-cta-clicked event on window.
C15_ClickDispatchesCtaClicked ==
    [][ click'.count # click.count =>
          countEvents(events', "cividis-cta-clicked") = 1 ]_vars

\* C20: while the delivery of a click is pending the engine's button is
\* disabled and shows the loading text; when the handler has finished, no
\* exception has left it, the button is enabled with the text it had before
\* the click, and exactly one notification has been shown.
C20_ClickRestoresButtonAndNotifiesOnce ==
    /\ click.pc = "fetching" =>
          \A b \in engineButton(dom) : b.disabled /\ b.text = LoadingText
    /\ (click.count > 0 /\ click.pc = "idle") =>
          /\ ~click.threw
          /\ click.notified = 1
          /\ \A b \in engineButton(dom) :
                ~b.disabled /\ b.text = click.originalText

(***************************************************************************)
(* Example server, POST /theme/toggle.  toggleStates is a plain object:    *)
(* reading a key it does not own finds what Object.prototype has under     *)
(* that name, and assigning a boolean to __proto__ stores nothing.         *)
(***************************************************************************)
NoClientId == "<undefined>"

\* clientId values of request bodies; NoClientId is a body without one.
ClientIds ==
    {NoClientId, "default", "page-/", "page-/about", "constructor", "__proto__"}

\* Names every object inherits from Object.prototype (those sampled).
ObjectPrototypeKeys == {"constructor", "__proto__"}

\* const { clientId = 'default' } = req.body
clientKey(clientId) == IF clientId = NoClientId THEN "default" ELSE clientId

\* toggleStates[clientId] || false, as a boolean
currentState(states, key) ==
    IF key \in DOMAIN states /\ key # "__proto__" THEN states[key]
    ELSE key \in ObjectPrototypeKeys

\* A lookup that sees own properties only.
currentStateOwn(states, key) ==
    IF key \in DOMAIN states THEN states[key] ELSE FALSE

\* toggleStates[clientId] = newState
setState(states, key, newState) ==
    IF key = "__proto__" THEN states
    ELSE [k \in DOMAIN states \cup {key} |->
            IF k = key THEN newState ELSE states[k]]

\* app.post('/theme/toggle')
Toggle(clientId) ==
    LET key == clientKey(clientId)
        n == IF key \in DOMAIN served THEN served[key] ELSE 0
        newState == ~currentState(toggleStates, key)
    IN  /\ n < MaxToggles
        /\ toggleStates' = setState(toggleStates, key, newState)
        /\ served' = [k \in DOMAIN served \cup {key} |->
                        IF k = key THEN n + 1 ELSE served[k]]
        /\ response' = [status |-> 200, clientId |-> key,
                        toggled |-> newState,
                        state |-> IF newState THEN "cividis"
                                  ELSE "traditional"]
        /\ UNCHANGED <<engineVarsOnly, evaluation, click>>

NextServer == \E clientId \in ClientIds : Toggle(clientId)

SpecServer ==
    InitWith(PositionConfigs, {pg \in LayoutPages :
                                 pg.landmarks = Landmarks(NoMatch)})
      /\ [][NextServer]_vars

\* C16: each POST /theme/toggle flips the boolean of the request's client
\* key and leaves the others unchanged; the first toggle of a key answers
\* 'cividis', the next 'traditional', and so on in alternation; a request
\* without clientId uses the key 'default'.
C16_TogglePerClientAlternates ==
    /\ response.status = 200 =>
          response.state = IF served[response.clientId] % 2 = 1
                           THEN "cividis" ELSE "traditional"
    /\ \A k \in DOMAIN served :
          /\ k \in DOMAIN toggleStates
          /\ toggleStates[k] = (served[k] % 2 = 1)
    /\ NoClientId \notin DOMAIN served

\* The sets written in the step's events (one per applyTheme call).
appliedSets(evts) ==
    {evts[i].detail.variables :
        i \in {j \in 1..Len(evts) : evts[j].type = "cividis-theme-applied"}}

\* The complete sets the engine can write on this page: the intelligent
\* mapping and the transformed palette of each valid response.
completeSets ==
    {analysis.mapping} \cup
    {transformToCSSVariables(Bodies[b].palette) :
        b \in {n \in BodyNames : validateThemeData(Bodies[n])}}

\* C17 as stated: the variables on the root element are those of one
\* complete set, never values of two different sources at the same time.
C17_RootHoldsOneSource ==
    \/ root = EmptyRoot
    \/ \E S \in completeSets : root = setProperties(EmptyRoot, S)

\* C17 amended: the root changes only by whole sets written one after the
\* other: a step that applies a set leaves every variable the set names
\* with the set's value and every other variable as it was, and no other
\* step changes a variable.
C17_RootChangesBySequentialOverwrite ==
    [][ IF appliedSets(events') = {}
        THEN root' = root
        ELSE \E S \in appliedSets(events') :
                /\ appliedSets(events') = {S}
                /\ \A v \in VarNames :
                      root'[v] = IF v \in DOMAIN S THEN S[v] ELSE root[v] ]_vars

\* Reached: a fetched palette was written over the intelligent mapping;
\* primary holds the fetched value, surface still the mapping's.
C17_Witness ==
    /\ currentTheme = "traditional"
    /\ root["--theme-primary"] = Cff0000
    /\ root["--theme-surface"] = Cf8f9fa
    /\ root["--theme-secondary"] = C7f7c75

(***************************************************************************)
(* applyTheme called on its own, as the public method of the instance,     *)
(* with sample variable sets, one call after the other.                    *)
(***************************************************************************)
SampleVars == {"--theme-primary", "--theme-surface", "--theme-text"}

SampleValues == {Cff0000, <<"r","e","d">>}

VariableSets == UNION {[d -> SampleValues] : d \in SUBSET SampleVars}

\* window.CividisTheme.applyTheme(cssVariables); no CTA button exists, so
\* reapplyCTAGradient has nothing to restyle.
ApplyTheme(cssVariables) ==
    /\ evaluation.fn = "applyTheme"
    /\ evaluation.count < MaxApply
    /\ LET w == applyTheme(World, cssVariables)
       IN  /\ root' = w.root
           /\ events' = w.events
           /\ evaluation' = [evaluation EXCEPT !.count = @ + 1,
                                               !.arg = cssVariables,
                                               !.rootBefore = root]
    /\ UNCHANGED << cfg, page, readyState, startPc, forcePc, analysis, calls,
                    net, currentTheme, styles, isInitialized, dom, unhandled,
                    ops, click, serverVars >>

InitApply ==
    /\ EngineAsConstructed
    /\ evaluation = [fn |-> "applyTheme", count |-> 0, arg |-> <<>>,
                     rootBefore |-> EmptyRoot]

SpecApply ==
    InitApply /\ [][\E S \in VariableSets : ApplyTheme(S)]_vars

\* C18: after applyTheme(S) every variable named in S reads back as the
\* string that was applied, and every other property of the root is as it
\* was before the call.
C18_ApplyThemeWritesNamedLeavesOthers ==
    (evaluation.fn = "applyTheme" /\ evaluation.count > 0) =>
        /\ \A v \in DOMAIN evaluation.arg : root[v] = evaluation.arg[v]
        /\ \A v \in VarNames \ DOMAIN evaluation.arg :
              root[v] = evaluation.rootBefore[v]

\* Reached: a second call overwrote one variable set by the first call and
\* left another one, which it does not name, with the first call's value.
C18_Witness ==
    /\ evaluation.fn = "applyTheme"
    /\ evaluation.count = 2
    /\ DOMAIN evaluation.arg = {"--theme-primary"}
    /\ evaluation.rootBefore["--theme-primary"] = Cff0000
    /\ root["--theme-primary"] = <<"r","e","d">>
    /\ root["--theme-surface"] = Cff0000
    /\ root["--theme-text"] = Unset

C21_BeaconFirstThenOneFallback ==
    click.count > 0 =>
        /\ click.beacons = (IF click.beacon = "unavailable" THEN 0 ELSE 1)
        /\ click.fetches =
              (IF click.beacon \in {"unavailable", "refused", "throws"}
               THEN 1 ELSE 0)
        /\ click.pc = "fetching" => click.fetches = 1

\* Reached: sendBeacon returned false and the click fell back to one
\* no-cors request, which has settled.
C21_Witness ==
    /\ click.beacon = "refused"
    /\ click.beacons = 1
    /\ click.fetches = 1
    /\ click.pc = "idle"

\* The first selector of headerSelectors whose element is visible.
firstVisible(landmarks) ==
    CHOOSE i \in 1..Len(headerSelectors) :
        /\ landmarks[i] = "visible"
        /\ \A j \in 1..(i - 1) : landmarks[j] # "visible"

\* C22: a button that insertCTAButton put into a header/nav container sits in the
\* element of the first selector of the ordered list whose element is
\* visible; an element that matched a selector but is not visible is never
\* the insertion target.
C22_InsertedIntoFirstVisibleCandidate ==
    \A b \in dom.buttons :
        (b.owner = "engine" /\ ~b.at.fixed) =>
            /\ b.at.parentVisible
            /\ ~noVisibleCandidate
            /\ b.at.parent = headerSelectors[firstVisible(page.landmarks)]

(***************************************************************************)
(* applyStylingRules called on its own with sample rule mappings, one call *)
(* after the other.                                                        *)
(***************************************************************************)
RuleNames == {"warning_container", "secondary_container", "accent_container"}

\* A rule with both colours, and one that carries no text_color.
SampleRules ==
    { [selector |-> ".box", background |-> Cffe945, text_color |-> C1b1b1b],
      [selector |-> ".box", background |-> C7f7c75] }

RuleMappings == UNION {[d -> SampleRules] : d \in SUBSET RuleNames}

ApplyStylingRules(stylingRules) ==
    /\ evaluation.fn = "applyStylingRules"
    /\ evaluation.count < MaxStyle
    /\ styles' = applyStylingRules(World, stylingRules).styles
    /\ events' = <<>>
    /\ evaluation' = [evaluation EXCEPT !.count = @ + 1,
                                        !.arg = stylingRules]
    /\ UNCHANGED << cfg, page, readyState, startPc, forcePc, analysis, calls,
                    net, root, currentTheme, isInitialized, dom, unhandled,
                    ops, click, serverVars >>

InitStyling ==
    /\ EngineAsConstructed
    /\ evaluation = [fn |-> "applyStylingRules", count |-> 0, arg |-> NoRules]

SpecStyling ==
    InitStyling /\ [][\E R \in RuleMappings : ApplyStylingRules(R)]_vars

\* The declarations a rule carries.
carried(rule) ==
    [f \in DOMAIN rule \cap {"background", "text_color", "border_color"} |->
        rule[f]]

\* C23: after applyStylingRules(R) the injected styles hold, for every
\* named rule of R whatever its name, a rule block with the declarations
\* the rule carries and no others.
C23_OneBlockPerNamedRule ==
    (evaluation.fn = "applyStylingRules" /\ evaluation.count > 0) =>
        \A name \in DOMAIN evaluation.arg :
            \E i \in 1..Len(styles) :
                \E k \in 1..Len(styles[i].content) :
                    styles[i].content[k] = carried(evaluation.arg[name])

\* The rule name a reserved style id belongs to.
ruleNameOf(id) ==
    IF id = "cividis-warning-styles" THEN "warning_container"
    ELSE "secondary_container"

\* C24: after any number of applications the document holds at most one
\* style element per reserved id; an application that carries the rule of
\* an id leaves that element with the block generated from this rule alone,
\* and an application that does not carry it leaves the element as it was.
C24_OneStyleElementPerIdContentReplaced ==
    [][ evaluation'.fn = "applyStylingRules" =>
          \A id \in StyleIds :
             /\ Cardinality(styleElements(styles', id)) <= 1
             /\ IF ruleNameOf(id) \in DOMAIN evaluation'.arg
                THEN \E i \in styleElements(styles', id) :
                        styles'[i].content =
                           <<ruleBlock(evaluation'.arg[ruleNameOf(id)])>>
                ELSE /\ styleElements(styles', id) = styleElements(styles, id)
                     /\ \A i \in styleElements(styles, id) :
                           styles'[i] = styles[i] ]_vars

\* Reached: a second application replaced the warning block of the first
\* and left the secondary element, whose rule it does not carry, alone.
C24_Witness ==
    /\ evaluation.fn = "applyStylingRules"
    /\ evaluation.count = 2
    /\ DOMAIN evaluation.arg = {"warning_container"}
    /\ Len(styles) = 2
    /\ \E i \in styleElements(styles, "cividis-warning-styles") :
          styles[i].content = <<[background |-> C7f7c75, text_color |-> Undefined]>>
    /\ \E i \in styleElements(styles, "cividis-secondary-styles") :
          styles[i].content = <<[background |-> Cffe945, text_color |-> C1b1b1b]>>

(***************************************************************************)
(* The ranking of analyzeWebsiteColors applied on its own to sample pages. *)
(***************************************************************************)
ElementStyles ==
    [bg : {Cff0000, C0000ff, Cffffff}, color : {Cff0000, C0000ff},
     border : {Cff0000, C0000ff}]

ElementLists == UNION {[1..n -> ElementStyles] : n \in 0..MaxElements}

AnalyzeWebsiteColors ==
    /\ evaluation.fn = "analyzeWebsiteColors"
    /\ ~evaluation.done
    /\ evaluation' = [evaluation EXCEPT
                        !.result = sortedColors(evaluation.arg),
                        !.done = TRUE]
    /\ UNCHANGED engineVars

InitSampler ==
    /\ EngineAsConstructed
    /\ evaluation \in
          {[fn |-> "analyzeWebsiteColors", arg |-> a, result |-> <<>>,
            done |-> FALSE] : a \in ElementLists}

SpecSampler == InitSampler /\ [][AnalyzeWebsiteColors]_vars

\* Position of the first observation of colour c.
firstSeen(obs, c) ==
    CHOOSE i \in 1..Len(obs) :
        obs[i] = c /\ \A j \in 1..(i - 1) : obs[j] # c

\* C25: the ranking holds exactly the colours that were counted at least
\* twice and are not in the neutral denylist, each once with its count, in
\* descending order of count, colours of equal count in order of first
\* discovery.
C25_RankingOfDetectedColors ==
    (evaluation.fn = "analyzeWebsiteColors" /\ evaluation.done) =>
        LET obs == observations(evaluation.arg)
            ranking == evaluation.result
            seen == {evaluation.arg[i].bg : i \in 1..Len(evaluation.arg)}
                      \cup {obs[i] : i \in 1..Len(obs)}
        IN  /\ {ranking[i].color : i \in 1..Len(ranking)} =
                  {c \in seen : c \notin neutrals /\ countOf(obs, c) >= 2}
            /\ \A i \in 1..Len(ranking) :
                  /\ ranking[i].count = countOf(obs, ranking[i].color)
                  /\ \A j \in (i + 1)..Len(ranking) :
                        /\ ranking[i].color # ranking[j].color
                        /\ ranking[i].count >= ranking[j].count
                        /\ ranking[i].count = ranking[j].count =>
                              firstSeen(obs, ranking[i].color) <
                                 firstSeen(obs, ranking[j].color)

\* Reached: blue was discovered before red, both were counted three times
\* and are ranked in that order; white, though seen twice, is left out.
C25_Witness ==
    /\ evaluation.fn = "analyzeWebsiteColors"
    /\ evaluation.done
    /\ Len(evaluation.arg) = 3
    /\ Cardinality({i \in 1..3 : evaluation.arg[i].bg = Cffffff}) = 2
    /\ evaluation.result = << [color |-> C0000ff, count |-> 3],
                              [color |-> Cff0000, count |-> 3] >>

(***************************************************************************)
(* The life of the CTA button without calls of the host page to            *)
(* createCTAButton: start(), the two timers of the script, clicks on       *)
(* either button and destroy().                                            *)
(***************************************************************************)
NextButtons ==
    \/ init
    \/ DOMContentLoaded
    \/ StartContinue
    \/ ForceCreate
    \/ EmergencyCreate
    \/ \E beacon \in BeaconOutcomes : Click(beacon)
    \/ \E beacon \in BeaconOutcomes : EmergencyClick(beacon)
    \/ \E resolved \in BOOLEAN : ToggleFetchSettles(resolved)
    \/ destroy

SpecButtons == InitWith(PositionConfigs, LayoutPages) /\ [][NextButtons]_vars

\* C26: the document holds at most one element with id cividis-cta-button.
C26_AtMostOneCtaElement ==
    Cardinality(ctaElements) <= 1

\* Reached: the emergency button was clicked, this.ctaButton points at it
\* while the no-cors request is pending, and it is the only CTA element.
C26_Witness ==
    /\ click.pc = "fetching"
    /\ click.via = "emergency"
    /\ \E e \in emergencyButton(dom) : dom.ctaButton = e.el /\ e.disabled
    /\ Cardinality(ctaElements) = 1
    /\ ops.destroy = 1

\* C27: when destroy() was called while a fetch started by start() or
\* refreshTheme() was in flight, the step that ends that call writes no CSS
\* variable and leaves currentTheme null and isInitialized false.
C27_CompletionAfterDestroyChangesNothing ==
    [][ \A c \in CallIds :
          (calls[c].destroyed /\ calls[c].pc # "done"
             /\ calls'[c].pc = "done") =>
             /\ root' = root
             /\ currentTheme' = Null
             /\ ~isInitialized' ]_vars

\* C28: isInitialized is false until the fetch-and-apply step of start()
\* has finished; the step that ends start() sets it, whether the fetch
\* succeeded or every attempt failed; and a refreshTheme() made after a
\* failed initial fetch is accepted: it begins a call with its first
\* request.
C28_InitializedExactlyAtEndOfStart ==
    [][ /\ startPc # "done" => ~isInitialized /\ calls[0].pc # "done"
        /\ (startPc # "done" /\ startPc' = "done") =>
              /\ isInitialized'
              /\ calls'[0].pc = "done"
              /\ calls'[0].outcome \in {"applied", "error"}
        /\ (ops'.refresh # ops.refresh /\ calls[0].outcome = "error"
              /\ ops.destroy = 0) =>
              /\ isInitialized
              /\ calls'[ops'.refresh].pc = "fetching"
              /\ request(ops'.refresh, 1) \in net'
              /\ ops'.rejected = ops.rejected ]_vars

\* Reached: every attempt of the initial fetch failed, nothing was applied,
\* and the refreshTheme() made afterwards is fetching.
C28_Witness ==
    /\ startPc = "done"
    /\ isInitialized
    /\ currentTheme = Null
    /\ ops.destroy = 0
    /\ ops.refresh = 1
    /\ ops.rejected = 0
    /\ calls[1].pc = "fetching"
    /\ request(1, 1) \in net

\* The fixed default the claim gives to each variable.
FixedDefault(v) ==
    CASE v = "--theme-primary"    -> <<"#","0","0","2","0","4","c">>
      [] v = "--theme-secondary"  -> <<"#","7","f","7","c","7","5">>
      [] v = "--theme-accent"     -> <<"#","b","b","a","f","7","1">>
      [] v = "--theme-success"    -> <<"#","0","a","3","7","6","d">>
      [] v = "--theme-warning"    -> <<"#","f","f","e","9","4","5">>
      [] v = "--theme-info"       -> <<"#","3","7","4","7","6","b">>
      [] v = "--theme-background" -> <<"#","f","f","f","f","f","f">>
      [] v = "--theme-surface"    -> <<"#","f","8","f","9","f","a">>
      [] v = "--theme-text"       -> <<"#","1","b","1","b","1","b">>
      [] v = "--theme-text-muted" -> <<"#","3","5","3","a","4","5">>
      [] v = "--theme-border"     -> <<"#","e","0","e","0","e","0">>

\* C29: the mapping createIntelligentMapping returns is determined by the
\* number n of detected colours: its keys are the first min(n, 6) slot
\* variables and the five neutral variables, every value is the fixed
\* default of its key, and no detected colour is a value of it.
C29_MappingDependsOnCountOnly ==
    (evaluation.fn = "createIntelligentMapping" /\ evaluation.done) =>
        LET n == Len(evaluation.arg)
            mapping == evaluation.result
            slots == {"--theme-" \o SlotOfRank(k) :
                        k \in 1..(IF n < 6 THEN n ELSE 6)}
        IN  /\ DOMAIN mapping =
                  slots \cup {"--theme-background", "--theme-surface",
                              "--theme-text", "--theme-text-muted",
                              "--theme-border"}
            /\ \A v \in DOMAIN mapping : mapping[v] = FixedDefault(v)
            /\ \A k \in 1..n, v \in DOMAIN mapping :
                  mapping[v] # evaluation.arg[k]

\* Reached: eight detected colours gave the eleven keys, and the two
\* overflow colours left the mapping as six colours give it.
C29_Witness ==
    /\ evaluation.fn = "createIntelligentMapping"
    /\ evaluation.done
    /\ Len(evaluation.arg) = 8
    /\ Cardinality(DOMAIN evaluation.result) = 11
    /\ evaluation.result["--theme-accent"] = Cbbaf71
    /\ evaluation.result = createIntelligentMapping(SubSeq(evaluation.arg, 1, 6))

\* C30: at most one resize listener of the engine is attached to window:
\* every createCTAButton call leaves exactly its own fresh listener
\* attached, and a resize event that finds the engine without a button
\* runs at most one listener, which restyles nothing and leaves the
\* document's buttons as they are.
C30_OneResizeListener ==
    [][ /\ Cardinality(dom.listeners) <= 1
        /\ dom'.created # dom.created =>
              /\ dom'.listeners = {dom'.resizeListener}
              /\ dom'.resizeListener \notin dom.listeners
        /\ (dom'.ran # dom.ran \/ dom'.resized # dom.resized) =>
              /\ Cardinality(dom'.ran) <= 1
              /\ dom.ctaButton = NoElement =>
                    dom'.resized = {} /\ dom'.buttons = dom.buttons ]_vars

\* Reached: three buttons were created one after the other, destroy()
\* left the last listener attached, and a resize event ran it without
\* restyling anything.
C30_Witness ==
    /\ dom.created >= 3
    /\ ops.destroy = 1
    /\ dom.ctaButton = NoElement
    /\ Cardinality(dom.listeners) = 1
    /\ dom.ran = dom.listeners
    /\ dom.resized = {}

====
